---------------------------- MODULE Spec2Model ----------------------------
(***************************************************************************)
(* Ugle: snapshot / checkout of a development environment.                 *)
(*                                                                         *)
(* Three state machines share this module:                                 *)
(*   SpecClosure   the apt package closure builder  (ugle/apt_deps.py)     *)
(*   SpecSnapshot  the snapshot transaction         (ugle/snapshot.py)     *)
(*   SpecCheckout  the checkout transaction         (ugle/checkout.py)     *)
(* External processes (git, cp, dpkg-repack, apt-cache) and the file       *)
(* system outside the staging / destination directory are the environment: *)
(* their answers are drawn with \E at the step that asks for them.         *)
(***************************************************************************)
EXTENDS Integers, Sequences, FiniteSets, TLC

None == "None"

(***************************************************************************)
(* Bounds                                                                  *)
(***************************************************************************)
NumPkgs == 3
\* lines apt-cache prints during one closure run, all queries together: the
\* dependency lines, and the error line of a query that fails
MaxDepLines == 3
\* the same, for a closure that runs inside a snapshot
MaxSnapDepLines == 1
\* dependencies a manifest / lockfile declares
NumDeps == 3
\* the same, for a manifest that is snapshotted
MaxSnapDeps == 2
\* directories of the archive that bear the name of a pinned dependency
MaxEmbedded == 1

Packages == 1..NumPkgs
Kinds == {"Depends", "PreDepends", "Recommends"}
DepLine == [kind : Kinds, pkg : Packages]

SeqsUpTo(S, n) == UNION {[1..k -> S] : k \in 0..n}

\* the `apt` list of the manifest: empty, one package, one package listed
\* twice, two packages (package names are interchangeable)
SeedLists == {<<>>, <<1>>, <<1, 1>>, <<1, 2>>}
ErrTexts == {"", "dpkg-repack: error"}

(***************************************************************************)
(* Sequence and ordered-dict helpers.  A Python dict is a sequence of      *)
(* [k, v] items in insertion order.                                        *)
(***************************************************************************)
RECURSIVE SelectLines(_, _)
SelectLines(lines, kinds) ==
    IF lines = <<>> THEN <<>>
    ELSE LET rest == SelectLines(Tail(lines), kinds)
         IN IF Head(lines).kind \in kinds THEN <<Head(lines).pkg>> \o rest ELSE rest

Range(s) == {s[i] : i \in 1..Len(s)}
DictKeys(d) == {d[i].k : i \in 1..Len(d)}
DictHas(d, key) == key \in DictKeys(d)
DictGet(d, key) == (CHOOSE i \in 1..Len(d) : d[i].k = key)
DictVal(d, key) == d[DictGet(d, key)].v
\* d[key] = val : in place when the key exists, appended otherwise
DictSet(d, key, val) ==
    IF DictHas(d, key)
    THEN [d EXCEPT ![DictGet(d, key)] = [k |-> key, v |-> val]]
    ELSE Append(d, [k |-> key, v |-> val])


(***************************************************************************)
(* State                                                                   *)
(***************************************************************************)
VARIABLES
    \* ---- the machine the program runs on
    onPath,             \* the external tools that are installed
    \* ---- package closure builder (ugle/apt_deps.py)
    clpc,               \* position: idle, seed, loop, reformat, sort, done, raised
    clErr,              \* the exception the closure builder raised, None if none
    seeds,              \* the `packages` argument of repack_apt_installed_packages
    seedIdx,            \* index of the for loop over the seeds
    packages,           \* the work list of repack_packages_recursive
    predep_tree,        \* dict package -> PreDepends list (file names after reformat)
    name_filename_map,  \* dict package -> .deb file name
    failed_packages,    \* list of (package, error text)
    deps_txt,           \* the install order written to apt/deps.txt
    depsOf,             \* history: package -> what its dependency query answered
    calls,              \* history: tool -> package -> number of invocations
    \* ---- the lockfile dict: built by snapshot, read by checkout
    lock,
    \* ---- snapshot transaction (ugle/snapshot.py)
    snpc,               \* position of snapshot()
    archive_dir,        \* the staging directory tmp-<uuid>: "absent" or "present"
    everStaged,         \* history: the staging directory was created in this run
    zip_file,           \* the archive <name>-<date>.zip: "none", "old", "new"
    snErr,              \* the exception that leaves snapshot(), None if none
    zip_before,         \* history: the archive as it was before the run
    copyFlag,           \* handle_other_deps: the copy flag of the manifest entry of
                        \* the last iteration
    warned,             \* handle_other_deps: the HEAD of the tree of the last
                        \* iteration if the dirty warning was printed for it
    \* ---- checkout transaction (ugle/checkout.py)
    copc,               \* position of checkout()
    force,              \* the force argument
    prior,              \* history: checkout_dir as it was before the run
    archive,            \* what the zip file holds: [lockfile, copied, embedded]
    headAtSnapshot,     \* history: dependency -> HEAD of its tree at snapshot time
    destExists,         \* checkout_dir exists
    destFiles,          \* files directly in checkout_dir: name -> origin
    destDirs,           \* directories in checkout_dir: name -> [origin, head, dirty]
    dockerfile,         \* what create_dockerfiles wrote: [templates, volumes], if anything
    search_paths,       \* load_dep: the candidate sources of the current dependency
    searchIdx,          \* load_dep: index of the candidate examined next
    src,                \* load_dep: where the commit was found
    cmdlog,             \* history: what load_dep did for the current dependency
    applied,            \* history: the dependencies a reset or checkout was run on
    coErr               \* the exception that leaves checkout(), None if none

clVars == <<clpc, clErr, seeds, seedIdx, packages, predep_tree, name_filename_map,
            failed_packages, deps_txt, depsOf, calls>>
snHist == <<zip_before, copyFlag, warned>>
snVars == <<snpc, archive_dir, everStaged, zip_file, snErr, snHist>>
coVars == <<copc, force, prior, archive, headAtSnapshot, destExists, destFiles, destDirs,
            dockerfile, search_paths, searchIdx, src, cmdlog, applied, coErr>>
vars == <<onPath, clVars, lock, snVars, coVars>>

\* An optional value is <<>> (absent, Python's None) or <<x>>.
Absent == <<>>
Some(x) == <<x>>
EmptyLock == [name |-> None, spack |-> None, deps |-> Absent,
              docker |-> None, apt |-> Absent]

(***************************************************************************)
(* graphlib.TopologicalSorter(graph).static_order(), graph: node -> its    *)
(* predecessors.  Nodes are kept in insertion order; the nodes without     *)
(* predecessors are emitted first, and a node becomes ready when the last  *)
(* of its predecessors was emitted.                                        *)
(***************************************************************************)
\* a node is added again each time it is named
AddAgain(acc, s) == acc \o s

RECURSIVE AddNew(_, _)
AddNew(acc, s) ==
    IF s = <<>> THEN acc
    ELSE AddNew(IF Head(s) \in Range(acc) THEN acc ELSE Append(acc, Head(s)), Tail(s))

RECURSIVE NodeOrder(_, _)
NodeOrder(g, acc) ==
    IF g = <<>> THEN acc
    ELSE NodeOrder(Tail(g), AddNew(acc, <<Head(g).k>> \o Head(g).v))

RECURSIVE CountIn(_, _)
CountIn(s, x) ==
    IF s = <<>> THEN 0
    ELSE (IF Head(s) = x THEN 1 ELSE 0) + CountIn(Tail(s), x)

\* nodeinfo.npredecessors after every add()
NPredecessors(g, n) == IF DictHas(g, n) THEN Len(DictVal(g, n)) ELSE 0

\* nodeinfo.successors of n: one entry per edge, in the order of the add() calls
RECURSIVE Successors(_, _)
Successors(g, n) ==
    IF g = <<>> THEN <<>>
    ELSE [i \in 1..CountIn(Head(g).v, n) |-> Head(g).k] \o Successors(Tail(g), n)

\* done(node): decrement each successor, append the ones that reach zero
RECURSIVE MarkDone(_, _, _)
MarkDone(succs, npred, ready) ==
    IF succs = <<>> THEN [npred |-> npred, ready |-> ready]
    ELSE LET s == Head(succs)
             np == [npred EXCEPT ![s] = @ - 1]
         IN MarkDone(Tail(succs), np, IF np[s] = 0 THEN Append(ready, s) ELSE ready)

RECURSIVE EmitReady(_, _, _, _)
EmitReady(g, ready, npred, out) ==
    IF ready = <<>> THEN out
    ELSE LET n == Head(ready)
             d == MarkDone(Successors(g, n), npred, Tail(ready))
         IN EmitReady(g, d.ready, d.npred, Append(out, n))

ReadyOrder(g) ==
    LET nodes == NodeOrder(g, <<>>)
        npred == [n \in Range(nodes) |-> NPredecessors(g, n)]
    IN EmitReady(g, SelectSeq(nodes, LAMBDA n : npred[n] = 0), npred, <<>>)

Reverse(s) == [i \in 1..Len(s) |-> s[Len(s) + 1 - i]]

\* the sorter takes every graph for acyclic
NoCycleError(g) == FALSE

\* prepare() raises CycleError when some node can never become ready
CycleError(g) == Len(ReadyOrder(g)) < Cardinality(Range(NodeOrder(g, <<>>)))

static_order_reversed(g) == Reverse(ReadyOrder(g))

static_order(g) == ReadyOrder(g)

(***************************************************************************)
(* reformat_predep_tree: package names -> file names                       *)
(***************************************************************************)
Missing == "Missing"

RECURSIVE ReformatList(_, _)
ReformatList(deps, map) ==
    IF deps = <<>> THEN <<>>
    ELSE IF Head(deps) \notin DOMAIN map THEN Missing
    ELSE LET rest == ReformatList(Tail(deps), map)
         IN IF rest = Missing THEN Missing ELSE <<map[Head(deps)]>> \o rest

RECURSIVE ReformatItems(_, _, _)
ReformatItems(items, map, acc) ==
    IF items = <<>> THEN acc
    ELSE IF Head(items).k \notin DOMAIN map THEN Missing
    ELSE LET l == ReformatList(Head(items).v, map)
         IN IF l = Missing THEN Missing
            ELSE ReformatItems(Tail(items), map, DictSet(acc, map[Head(items).k], l))

\* the translated graph with its items in the opposite order
reformat_predep_tree_unordered(dep_tree, map) ==
    ReformatItems(Reverse(dep_tree), map, <<>>)

reformat_predep_tree(dep_tree, map) == ReformatItems(dep_tree, map, <<>>)

(***************************************************************************)
(* Package closure builder                                                 *)
(***************************************************************************)
\* the name dpkg-repack gives the .deb of a package
DebFile(p) == [deb |-> p]

\* exit statuses of the external tools
ReturnCodes == {0, 1}

\* PreDepends lines are not followed
AllDepsWithoutPreDepends(lines) == SelectLines(lines, {"Depends", "Recommends"})

\* Recommends lines are not followed
AllDepsWithoutRecommends(lines) == SelectLines(lines, {"Depends", "PreDepends"})

\* re.findall over the apt-cache output
AllDeps(lines) == SelectLines(lines, {"Depends", "PreDepends", "Recommends"})
PreDeps(lines) == SelectLines(lines, {"PreDepends"})

RECURSIVE SumLen(_, _)
SumLen(f, S) ==
    IF S = {} THEN 0
    ELSE LET x == CHOOSE y \in S : TRUE
         IN Len(f[x]) + SumLen(f, S \ {x})

\* inside a snapshot run the closure gets the smaller budget
LineBudget == IF snpc = "idle" THEN MaxDepLines ELSE MaxSnapDepLines

\* lines printed so far in this run
LinesSoFar ==
    SumLen([q \in DOMAIN depsOf |-> depsOf[q].deps], DOMAIN depsOf)
        + Cardinality({q \in DOMAIN depsOf : depsOf[q].rc # 0})

\* no package counts as handled
NeverHandled(p) == FALSE

\* if predep_tree.get(package): an empty list counts as not handled
HandledUnlessEmpty(p) == DictHas(predep_tree, p) /\ DictVal(predep_tree, p) # <<>>

\* predep_tree.get(package) is not None
Handled(p) == DictHas(predep_tree, p)

\* subprocess.run of dpkg-repack or apt-cache on a package, counted
NoCalls == [t \in {"dpkg-repack", "apt-cache"} |-> [q \in Packages |-> 0]]
Called(c, tool, p) == [c EXCEPT ![tool][p] = @ + 1]

ClIdle ==
    /\ clpc = "idle"
    /\ clErr = None
    /\ seeds = <<>>
    /\ seedIdx = 1
    /\ packages = <<>>
    /\ predep_tree = <<>>
    /\ name_filename_map = <<>>
    /\ failed_packages = <<>>
    /\ deps_txt = <<>>
    /\ depsOf = <<>>
    /\ calls = NoCalls

\* repack_apt_installed_packages(packages, ...) is entered with fresh locals
ClEnter(seedList) ==
    /\ clpc' = "seed"
    /\ clErr' = None
    /\ seeds' = seedList
    /\ seedIdx' = 1
    /\ packages' = <<>>
    /\ predep_tree' = <<>>
    /\ name_filename_map' = <<>>
    /\ failed_packages' = <<>>
    /\ deps_txt' = <<>>
    /\ depsOf' = <<>>
    /\ calls' = NoCalls

\* the call is over: its locals no longer exist
ClLeave ==
    /\ clpc' = "idle"
    /\ clErr' = None
    /\ seeds' = <<>>
    /\ seedIdx' = 1
    /\ packages' = <<>>
    /\ predep_tree' = <<>>
    /\ name_filename_map' = <<>>
    /\ failed_packages' = <<>>
    /\ deps_txt' = <<>>
    /\ depsOf' = <<>>
    /\ calls' = NoCalls

\* for package in packages: (repack_apt_installed_packages)
ForSeed ==
    /\ clpc = "seed"
    /\ \/ /\ seedIdx > Len(seeds)
          /\ clpc' = "reformat"
          /\ UNCHANGED <<seedIdx, packages>>
       \/ /\ seedIdx <= Len(seeds)
          /\ Handled(seeds[seedIdx])
          /\ seedIdx' = seedIdx + 1
          /\ UNCHANGED <<clpc, packages>>
       \/ /\ seedIdx <= Len(seeds)
          /\ ~Handled(seeds[seedIdx])
          /\ packages' = <<seeds[seedIdx]>>
          /\ clpc' = "loop"
          /\ UNCHANGED seedIdx
    /\ UNCHANGED <<clErr, seeds, predep_tree, name_filename_map, failed_packages,
                   deps_txt, depsOf, calls, lock, snVars, coVars, onPath>>

\* while len(packages): ... when the work list is empty the call returns
WorklistEmpty ==
    /\ clpc = "loop"
    /\ packages = <<>>
    /\ clpc' = "seed"
    /\ seedIdx' = seedIdx + 1
    /\ UNCHANGED <<clErr, seeds, packages, predep_tree, name_filename_map,
                   failed_packages, deps_txt, depsOf, calls, lock, snVars, coVars, onPath>>

\* package = packages.pop(); already handled: continue
PopHandled ==
    /\ clpc = "loop"
    /\ packages # <<>>
    /\ Handled(packages[Len(packages)])
    /\ packages' = SubSeq(packages, 1, Len(packages) - 1)
    /\ UNCHANGED <<clpc, clErr, seeds, seedIdx, predep_tree, name_filename_map,
                   failed_packages, deps_txt, depsOf, calls, lock, snVars, coVars, onPath>>

\* a failure of dpkg-repack is stored and the work list is carried on with
repack_package_stores_only(p, rest, stdout, err, returncode, lines) ==
    \/ /\ stdout = "empty"
       /\ failed_packages' = Append(failed_packages, <<p, err>>)
       /\ packages' = rest
       /\ calls' = Called(calls, "dpkg-repack", p)
       /\ UNCHANGED <<clpc, clErr, predep_tree, name_filename_map, depsOf>>
    \/ /\ stdout = "nomatch"
       /\ clpc' = "raised"
       /\ clErr' = "ValueError"
       /\ packages' = rest
       /\ calls' = Called(calls, "dpkg-repack", p)
       /\ UNCHANGED <<predep_tree, name_filename_map, failed_packages, depsOf>>
    \/ /\ stdout = "built"
       /\ name_filename_map' = (p :> DebFile(p)) @@ name_filename_map
       /\ IF "apt-cache" \in onPath
          THEN /\ predep_tree' = DictSet(predep_tree, p, PreDeps(lines))
               /\ packages' = rest \o AllDeps(lines)
               /\ depsOf' = (p :> [deps |-> SelectLines(lines, Kinds),
                                    pre |-> SelectLines(lines, {"PreDepends"}),
                                    rc |-> returncode]) @@ depsOf
               /\ calls' = Called(Called(calls, "dpkg-repack", p), "apt-cache", p)
               /\ UNCHANGED <<clpc, clErr, failed_packages>>
          ELSE /\ clpc' = "raised"
               /\ clErr' = "FileNotFoundError"
               /\ packages' = rest
               /\ calls' = Called(calls, "dpkg-repack", p)
               /\ UNCHANGED <<predep_tree, failed_packages, depsOf>>

\* repack_package(package, ...) on the popped package; rest is the work list
\* after the pop; returncode and lines are the exit status and the output of
\* apt-cache depends (a non-zero exit status is printed and nothing else)
repack_package(p, rest, stdout, err, returncode, lines) ==
    \/ /\ stdout = "empty"            \* dpkg-repack printed nothing: store, then raise
       /\ failed_packages' = Append(failed_packages, <<p, err>>)
       /\ clpc' = "raised"
       /\ clErr' = "RepackFailed"
       /\ packages' = rest
       /\ calls' = Called(calls, "dpkg-repack", p)
       /\ UNCHANGED <<predep_tree, name_filename_map, depsOf>>
    \/ /\ stdout = "nomatch"          \* no "building package" line: ValueError
       /\ clpc' = "raised"
       /\ clErr' = "ValueError"
       /\ packages' = rest
       /\ calls' = Called(calls, "dpkg-repack", p)
       /\ UNCHANGED <<predep_tree, name_filename_map, failed_packages, depsOf>>
    \/ /\ stdout = "built"
       /\ name_filename_map' = (p :> DebFile(p)) @@ name_filename_map
       /\ IF "apt-cache" \in onPath
          THEN /\ predep_tree' = DictSet(predep_tree, p, PreDeps(lines))
               /\ packages' = rest \o AllDeps(lines)
               \* history: the packages the output names, and its PreDepends lines
               /\ depsOf' = (p :> [deps |-> SelectLines(lines, Kinds),
                                    pre |-> SelectLines(lines, {"PreDepends"}),
                                    rc |-> returncode]) @@ depsOf
               /\ calls' = Called(Called(calls, "dpkg-repack", p), "apt-cache", p)
               /\ UNCHANGED <<clpc, clErr, failed_packages>>
          ELSE /\ clpc' = "raised"          \* subprocess.run finds no apt-cache
               /\ clErr' = "FileNotFoundError"
               /\ packages' = rest
               /\ calls' = Called(calls, "dpkg-repack", p)
               /\ UNCHANGED <<predep_tree, failed_packages, depsOf>>

PopRepack ==
    /\ clpc = "loop"
    /\ packages # <<>>
    /\ ~Handled(packages[Len(packages)])
    /\ LET p == packages[Len(packages)]
           rest == SubSeq(packages, 1, Len(packages) - 1)
       IN \/ \E err \in ErrTexts : repack_package(p, rest, "empty", err, 0, <<>>)
          \/ repack_package(p, rest, "nomatch", "", 0, <<>>)
          \/ \E lines \in SeqsUpTo(DepLine, LineBudget - LinesSoFar) :
                repack_package(p, rest, "built", "", 0, lines)
          \* a failing query leaves its standard output empty
          \/ /\ LinesSoFar < LineBudget
             /\ \E rc \in ReturnCodes \ {0} :
                   repack_package(p, rest, "built", "", rc, <<>>)
    /\ UNCHANGED <<seeds, seedIdx, deps_txt, lock, snVars, coVars, onPath>>

\* predep_tree = reformat_predep_tree(predep_tree, name_filename_map)
Reformat ==
    /\ clpc = "reformat"
    /\ LET t == reformat_predep_tree(predep_tree, name_filename_map)
       IN \/ /\ t = Missing
             /\ clpc' = "raised"
             /\ clErr' = "MissingPackage"
             /\ UNCHANGED predep_tree
          \/ /\ t # Missing
             /\ predep_tree' = t
             /\ clpc' = "sort"
             /\ UNCHANGED clErr
    /\ UNCHANGED <<seeds, seedIdx, packages, name_filename_map, failed_packages,
                   deps_txt, depsOf, calls, lock, snVars, coVars, onPath>>

\* TopologicalSorter, deps.txt, snapshot["apt"]
SortAndStore ==
    /\ clpc = "sort"
    /\ \/ /\ CycleError(predep_tree)
          /\ clpc' = "raised"
          /\ clErr' = "CycleError"
          /\ UNCHANGED <<deps_txt, lock>>
       \/ /\ ~CycleError(predep_tree)
          /\ deps_txt' = static_order(predep_tree)
          /\ lock' = [lock EXCEPT !.apt = Some([folder |-> "apt", errors |-> failed_packages])]
          /\ clpc' = "done"
          /\ UNCHANGED clErr
    /\ UNCHANGED <<seeds, seedIdx, packages, predep_tree, name_filename_map,
                   failed_packages, depsOf, calls, snVars, coVars, onPath>>

ClNext == ForSeed \/ WorklistEmpty \/ PopHandled \/ PopRepack \/ Reformat \/ SortAndStore


(***************************************************************************)
(* Helpers of utils.py that every external call goes through               *)
(***************************************************************************)
\* check_tool_existence(tool): raises when the tool is not installed
check_tool_existence(tool, installed) == tool \in installed

\* a non-zero exit status is printed and the caller goes on
check_subprocess_error_reports_only(returncode) == FALSE

\* check_subprocess_error(output): raises when the process exited non-zero
check_subprocess_error(returncode) == returncode # 0

Tools == {"git", "dpkg-repack", "apt-cache", "cp"}

(***************************************************************************)
(* Manifest and lockfile records                                           *)
(***************************************************************************)
Commits == {"c1", "c2"}
Urls == {"https://example/lib.git"}
\* The filepath the manifest gives for dependency i.  A path is opaque to the
\* program; what is found there is asked of the file system when it is used.
ManifestPath(i) == [dep |-> i, given_in |-> "manifest"]

\* deps.<name> of the manifest (TOML)
ManifestEntries(i) ==
    [filepath : {Absent, Some(ManifestPath(i))},
     url : {None} \cup Urls,
     copy : {Absent, Some(TRUE), Some(FALSE)}]

\* the state of the working tree at a manifest filepath
WorkTrees ==
    [exists : BOOLEAN, is_dir : BOOLEAN, status_rc : ReturnCodes, dirty : BOOLEAN,
     revparse_rc : ReturnCodes, head : Commits, remote_rc : ReturnCodes,
     origin_push : SeqsUpTo(Urls, 1)]

CopyRecord == [copy |-> TRUE, filepath |-> Absent, hash |-> None, url |-> None]
PinnedRecord(path, hash, url) ==
    [copy |-> FALSE, filepath |-> Some(path), hash |-> hash, url |-> url]

Raised(e) == [err |-> e, rec |-> CopyRecord]
Recorded(r) == [err |-> None, rec |-> r]

\* local_dep_copy that also records the commit the copied tree is at
local_dep_copy_with_hash(path, tree, cp_rc) ==
    [err |-> None,
     rec |-> [copy |-> TRUE, filepath |-> Absent, hash |-> tree.head, url |-> None]]

\* local_dep_copy: cp -r the tree into the staging directory, record {copy: True}
local_dep_copy(path, tree, cp_rc) ==
    IF ~tree.exists THEN Raised("FileNotFoundError")
    ELSE IF ~tree.is_dir THEN Raised("NotADirectory")
    ELSE IF check_subprocess_error(cp_rc) THEN Raised("ExternalToolError")
    ELSE Recorded(CopyRecord)

\* local_dep_git with the wrong commit recorded
local_dep_git_other_hash(path, url, tree) ==
    Recorded(PinnedRecord(path, CHOOSE c \in Commits : c # tree.head, url))

\* local_dep_git that refuses a working tree with uncommitted changes
local_dep_git_rejects_dirty(path, url, tree) ==
    IF tree.dirty THEN [err |-> "DirtyTree", rec |-> CopyRecord]
    ELSE [err |-> None, rec |-> PinnedRecord(path, tree.head, url)]

\* local_dep_git: record the HEAD commit and the url of the working tree
local_dep_git(path, url, tree) ==
    IF ~tree.exists THEN Raised("FileNotFoundError")
    ELSE IF ~tree.is_dir THEN Raised("NotADirectory")
    ELSE IF check_subprocess_error(tree.status_rc) THEN Raised("ExternalToolError")
    ELSE IF check_subprocess_error(tree.revparse_rc) THEN Raised("ExternalToolError")
    ELSE IF url = None /\ check_subprocess_error(tree.remote_rc)
         THEN Raised("ExternalToolError")
    ELSE LET found == IF url # None THEN url
                      ELSE IF Len(tree.origin_push) > 0 THEN tree.origin_push[1]
                      ELSE None
         IN Recorded(PinnedRecord(path, tree.head, found))

\* local_dep_git is entered and git status reports changes: the warning is
\* printed
warns_dirty(entry, tree) ==
    /\ entry.filepath # Absent
    /\ entry.copy = Some(FALSE)
    /\ tree.exists /\ tree.is_dir
    /\ ~check_subprocess_error(tree.status_rc)
    /\ tree.dirty

\* one iteration of handle_other_deps
handle_dep(entry, tree, cp_rc) ==
    LET copy == IF entry.copy = Absent THEN TRUE ELSE entry.copy[1]
    IN IF entry.filepath # Absent
       THEN IF copy THEN local_dep_copy(entry.filepath[1], tree, cp_rc)
            ELSE local_dep_git(entry.filepath[1], entry.url, tree)
       ELSE Raised("KeyError")

(***************************************************************************)
(* Snapshot transaction                                                    *)
(***************************************************************************)
SnIdle ==
    /\ snpc = "idle"
    /\ archive_dir = "absent"
    /\ everStaged = FALSE
    /\ zip_file = "none"
    /\ snErr = None
    /\ zip_before = "none"
    /\ copyFlag = Absent
    /\ warned = Absent

\* an exception inside the try block: the finally clause runs next
SnRaise(e) == snpc' = "finally" /\ snErr' = e

\* check_script_dependencies() of snapshot.py
SnCheckTools ==
    /\ snpc = "tools"
    /\ IF \A t \in {"git", "dpkg-repack", "cp"} : check_tool_existence(t, onPath)
       THEN snpc' = "manifest" /\ UNCHANGED snErr
       ELSE snpc' = "failed" /\ snErr' = "ToolMissing"
    /\ UNCHANGED <<archive_dir, everStaged, zip_file, lock, clVars, coVars, snHist, onPath>>

\* the TOML file is looked up and loaded, `name` is read
SnReadManifest ==
    /\ snpc = "manifest"
    /\ \/ /\ snpc' = "failed" /\ snErr' = "FileNotFoundError"
          /\ UNCHANGED lock
       \/ /\ snpc' = "failed" /\ snErr' = "ValueError"       \* no `name`
          /\ UNCHANGED lock
       \/ /\ lock' = [lock EXCEPT !.name = "demo"]
          /\ snpc' = "mkdir"
          /\ UNCHANGED snErr
    /\ UNCHANGED <<archive_dir, everStaged, zip_file, clVars, coVars, snHist, onPath>>

\* os.mkdir(archive_dir)
SnMkdir ==
    /\ snpc = "mkdir"
    /\ \/ /\ archive_dir' = "present" /\ everStaged' = TRUE
          /\ snpc' = "spack"
          /\ UNCHANGED snErr
       \/ /\ snpc' = "failed" /\ snErr' = "OSError"
          /\ UNCHANGED <<archive_dir, everStaged>>
    /\ UNCHANGED <<zip_file, lock, clVars, coVars, snHist, onPath>>

\* spack_deps, when the manifest has a spack section
SnSpack ==
    /\ snpc = "spack"
    /\ \/ snpc' = "deps" /\ UNCHANGED <<snErr, lock>>          \* no spack section
       \/ SnRaise("KeyError") /\ UNCHANGED lock                \* no `lockfile` key
       \/ SnRaise("FileNotFoundError") /\ UNCHANGED lock
       \/ /\ lock' = [lock EXCEPT !.spack = "spack.lock content"]
          /\ snpc' = "deps"
          /\ UNCHANGED snErr
    /\ UNCHANGED <<archive_dir, everStaged, zip_file, clVars, coVars, snHist, onPath>>

\* deps = config.get("deps"); snapshot["deps"] = dict()
SnDeps ==
    /\ snpc = "deps"
    /\ \/ snpc' = "docker" /\ UNCHANGED lock                   \* no deps section
       \/ lock' = [lock EXCEPT !.deps = Some(<<>>)] /\ snpc' = "dep"
    /\ UNCHANGED <<archive_dir, everStaged, zip_file, snErr, clVars, coVars, snHist, onPath>>

\* for dep_name, dep in deps.items(): one dependency, or the end of the loop
SnDep ==
    /\ snpc = "dep"
    /\ LET done == lock.deps[1]
           i == Len(done) + 1
       IN \/ /\ snpc' = "docker"               \* the loop is over
             /\ copyFlag' = Absent /\ warned' = Absent
             /\ UNCHANGED <<lock, snErr>>
          \/ /\ i <= MaxSnapDeps
             /\ \E entry \in ManifestEntries(i), tree \in WorkTrees, cp_rc \in ReturnCodes :
                   LET r == handle_dep(entry, tree, cp_rc)
                   IN /\ copyFlag' = entry.copy
                      /\ warned' = IF warns_dirty(entry, tree)
                                   THEN Some(tree.head) ELSE Absent
                      /\ IF r.err = None
                         THEN /\ lock' = [lock EXCEPT !.deps = Some(DictSet(done, i, r.rec))]
                              /\ UNCHANGED <<snpc, snErr>>
                         ELSE SnRaise(r.err) /\ UNCHANGED lock
    /\ UNCHANGED <<archive_dir, everStaged, zip_file, zip_before, clVars, coVars, onPath>>

\* load_docker_helpers
SnDocker ==
    /\ snpc = "docker"
    /\ \/ SnRaise("OSError") /\ UNCHANGED lock
       \/ /\ lock' = [lock EXCEPT !.docker = "templates"]
          /\ snpc' = "apt"
          /\ UNCHANGED snErr
    /\ UNCHANGED <<archive_dir, everStaged, zip_file, clVars, coVars, snHist, onPath>>

\* apt_packages = config.get("apt"); repack_apt_installed_packages is entered
SnApt ==
    /\ snpc = "apt"
    /\ clpc = "idle"
    /\ \/ snpc' = "lockfile" /\ UNCHANGED clVars
       \/ \E seedList \in SeedLists : ClEnter(seedList) /\ UNCHANGED snpc
    /\ UNCHANGED <<archive_dir, everStaged, zip_file, snErr, lock, coVars, snHist, onPath>>

\* repack_apt_installed_packages returned (its locals are gone): install.sh is
\* copied next to the .debs
SnAptReturned ==
    /\ snpc = "apt"
    /\ clpc = "done"
    /\ ClLeave
    /\ \/ snpc' = "lockfile" /\ UNCHANGED snErr
       \/ SnRaise("OSError")
    /\ UNCHANGED <<archive_dir, everStaged, zip_file, lock, coVars, snHist, onPath>>

\* repack_apt_installed_packages raised: the exception leaves the try block
SnAptRaised ==
    /\ snpc = "apt"
    /\ clpc = "raised"
    /\ ClLeave
    /\ SnRaise(clErr)
    /\ UNCHANGED <<archive_dir, everStaged, zip_file, lock, coVars, snHist, onPath>>

\* json.dump(snapshot) to ugle.lock, the manifest is copied to ugle.toml
SnWriteLockfile ==
    /\ snpc = "lockfile"
    /\ \/ snpc' = "zip" /\ UNCHANGED snErr
       \/ SnRaise("OSError")
    /\ UNCHANGED <<archive_dir, everStaged, zip_file, lock, clVars, coVars, snHist, onPath>>

\* an existing archive is removed, then shutil.make_archive
SnZip ==
    /\ snpc = "zip"
    /\ \/ /\ zip_file' = "new"
          /\ snpc' = "finally"
          /\ UNCHANGED snErr
       \/ /\ zip_file = "old"               \* os.remove(zip_file) fails
          /\ SnRaise("OSError")
          /\ UNCHANGED zip_file
       \/ /\ zip_file' \in {"none", "partial"} \* make_archive fails
          /\ SnRaise("OSError")
    /\ UNCHANGED <<archive_dir, everStaged, lock, clVars, coVars, snHist, onPath>>

\* the cleanup placed after the try block instead of in a finally clause:
\* it is skipped when an exception is on its way out
SnCleanupOnlyOnSuccess ==
    /\ snpc = "finally"
    /\ archive_dir' = IF snErr = None THEN "absent" ELSE archive_dir
    /\ snpc' = IF snErr = None THEN "done" ELSE "failed"
    /\ UNCHANGED <<everStaged, zip_file, snErr, lock, clVars, coVars, snHist, onPath>>

\* finally: shutil.rmtree(archive_dir), then return or re-raise
SnFinally ==
    /\ snpc = "finally"
    /\ archive_dir' = "absent"
    /\ snpc' = IF snErr = None THEN "done" ELSE "failed"
    /\ UNCHANGED <<everStaged, zip_file, snErr, lock, clVars, coVars, snHist, onPath>>

SnNext ==
    \/ SnCheckTools \/ SnReadManifest \/ SnMkdir \/ SnSpack \/ SnDeps \/ SnDep
    \/ SnDocker \/ SnApt \/ SnAptReturned \/ SnAptRaised \/ SnWriteLockfile
    \/ SnZip \/ SnFinally

(***************************************************************************)
(* Checkout transaction                                                    *)
(***************************************************************************)
DepNames == 1..NumDeps
\* the last component of a candidate path: a dependency's name, or 0 for a
\* name that is no dependency's
BaseNames == 0..NumDeps
TomlPath(i) == [dep |-> i, given_in |-> "ugle.toml"]
\* destination_path = checkout_dir / dep_name
DestinationPath(i) == [dep |-> i, given_in |-> "checkout_dir"]

NoFiles == <<>>
\* the tree stays where it is
KeepsTree(f, key) == f

\* shutil.rmtree of one directory of checkout_dir
Without(f, key) == [x \in DOMAIN f \ {key} |-> f[x]]

Dest == [exists |-> destExists, files |-> destFiles, dirs |-> destDirs]

CoIdle ==
    /\ copc = "idle"
    /\ force = FALSE
    /\ prior = [exists |-> FALSE, files |-> NoFiles, dirs |-> NoFiles]
    /\ archive = [lockfile |-> FALSE, copied |-> {}, embedded |-> {}]
    /\ headAtSnapshot = NoFiles
    /\ destExists = FALSE
    /\ destFiles = NoFiles
    /\ destDirs = NoFiles
    /\ dockerfile = Absent
    /\ search_paths = <<>>
    /\ searchIdx = 1
    /\ src = Absent
    /\ cmdlog = <<>>
    /\ applied = {}
    /\ coErr = None

\* load_dep locals and the history
coDep == <<search_paths, searchIdx, src, cmdlog, applied>>
coDest == <<destExists, destFiles, destDirs>>
coInput == <<force, prior, archive>>

\* an exception before the try block leaves checkout() at once
CoFail(e) == copc' = "failed" /\ coErr' = e
\* an exception inside the try block is swallowed and the run goes on to
\* the environment files
CoRaiseSwallowed(e) == copc' = "docker" /\ coErr' = e

\* an exception inside the try block: the except clause runs next
CoRaise(e) == copc' = "rollback" /\ coErr' = e

Event(op, cand, ok) == [op |-> op, cand |-> cand, ok |-> ok]

\* check_script_dependencies() of checkout.py
CoCheckTools ==
    /\ copc = "tools"
    /\ IF \A t \in {"git", "dpkg-repack", "apt-cache", "cp"} :
             check_tool_existence(t, onPath)
       THEN copc' = "zip" /\ UNCHANGED coErr
       ELSE CoFail("ToolMissing")
    /\ UNCHANGED <<coInput, dockerfile, headAtSnapshot, coDest, coDep, lock, clVars, snVars, onPath>>

\* the zip file is looked up after a forced removal of the destination
CoFindZipAfterRemoval ==
    /\ copc = "zip"
    /\ IF destExists /\ force
       THEN destExists' = FALSE /\ destFiles' = NoFiles /\ destDirs' = NoFiles
       ELSE UNCHANGED coDest
    /\ \/ copc' = "validate" /\ UNCHANGED coErr
       \/ CoFail("ZipFileNotFound")
    /\ UNCHANGED <<coInput, dockerfile, headAtSnapshot, coDep, lock, clVars, snVars, onPath>>

\* check_if_file_exists(zipfile_path)
CoFindZip ==
    /\ copc = "zip"
    /\ \/ copc' = "validate" /\ UNCHANGED coErr
       \/ CoFail("ZipFileNotFound")
    /\ UNCHANGED <<coInput, dockerfile, headAtSnapshot, coDest, coDep, lock, clVars, snVars, onPath>>

\* an existing destination is removed whether or not force was given
validate_always_removes(exists, forced) ==
    IF exists THEN "rmtree" ELSE "proceed"

\* an existing destination is kept and unpacked into when force was given
validate_never_removes(exists, forced) ==
    IF exists /\ ~forced THEN "raise" ELSE "proceed"

\* if checkout_dir.exists(): rmtree with force, ValueError without
validate_destination(exists, forced) ==
    IF exists THEN (IF forced THEN "rmtree" ELSE "raise") ELSE "proceed"

CoValidate ==
    /\ copc = "validate"
    /\ LET v == validate_destination(destExists, force)
       IN \/ /\ v = "raise"
             /\ CoFail("DestinationExists")
             /\ UNCHANGED coDest
          \/ /\ v = "rmtree"
             /\ destExists' = FALSE /\ destFiles' = NoFiles /\ destDirs' = NoFiles
             /\ copc' = "unpack"
             /\ UNCHANGED coErr
          \/ /\ v = "proceed"
             /\ copc' = "unpack"
             /\ UNCHANGED <<coErr, coDest>>
    /\ UNCHANGED <<coInput, dockerfile, headAtSnapshot, coDep, lock, clVars, snVars, onPath>>

\* the members of an archive that snapshot made
UnpackedFiles(a) ==
    IF a.lockfile THEN [f \in {"ugle.lock", "ugle.toml"} |-> "unpacked"]
    ELSE [f \in {"ugle.toml"} |-> "unpacked"]
\* The trees of the copy records, and the trees the archive holds under the
\* name of a pinned dependency: those are repositories with c1 checked out.
UnpackedDirs(a) ==
    [d \in a.copied \cup a.embedded |->
        [origin |-> "unpacked", head |-> IF d \in a.embedded THEN "c1" ELSE None,
         dirty |-> FALSE]]

\* shutil.unpack_archive(zipfile_path, extract_dir=checkout_dir)
CoUnpack ==
    /\ copc = "unpack"
    /\ \/ /\ CoRaise("ReadError")            \* not an archive: nothing is created
          /\ UNCHANGED coDest
       \/ /\ CoRaise("OSError")              \* fails while extracting
          /\ destExists' = TRUE
          /\ UNCHANGED <<destFiles, destDirs>>
       \/ /\ destExists' = TRUE
          /\ destFiles' = UnpackedFiles(archive) @@ destFiles
          /\ destDirs' = UnpackedDirs(archive) @@ destDirs
          /\ copc' = "lockfile"
          /\ UNCHANGED coErr
    /\ UNCHANGED <<coInput, dockerfile, headAtSnapshot, coDep, lock, clVars, snVars, onPath>>

\* ugle.lock is looked up and loaded; deps = config.get("deps")
CoReadLockfile ==
    /\ copc = "lockfile"
    /\ \/ /\ "ugle.lock" \notin DOMAIN destFiles
          /\ CoRaise("FileNotFoundError")
          /\ UNCHANGED lock
       \/ /\ "ugle.lock" \in DOMAIN destFiles
          /\ \/ /\ archive.copied \cup archive.embedded = {}
                /\ lock' = [lock EXCEPT !.name = "demo", !.docker = "templates"]
                /\ copc' = "docker"
             \/ /\ lock' = [lock EXCEPT !.name = "demo", !.docker = "templates",
                                         !.deps = Some(<<>>)]
                /\ copc' = "deps"
          /\ UNCHANGED coErr
    /\ UNCHANGED <<coInput, dockerfile, headAtSnapshot, coDest, coDep, clVars, snVars, onPath>>

\* The records of the lockfile are those snapshot wrote: the record of
\* dependency i is what handle_other_deps recorded for some manifest entry and
\* some working tree; it is a copy record exactly when the archive holds the tree.
LockRecords(i) ==
    {[rec |-> handle_dep(p[1], p[2], 0).rec, head |-> p[2].head] :
        p \in {q \in ManifestEntries(i) \X WorkTrees :
                    handle_dep(q[1], q[2], 0).err = None}}

\* every record is taken for a pinned one
copy_flag_ignored(dep) == FALSE

\* copy = dep.get("copy"); if copy: continue
copy_flag(dep) == dep.copy

\* for dep_name, dep in deps.items(): the end of the loop, a copy record
\* (continue), or the entry of load_dep
CoNextDep ==
    /\ copc = "deps"
    /\ UNCHANGED applied
    /\ LET done == lock.deps[1]
           i == Len(done) + 1
       IN \/ /\ \A c \in archive.copied \cup archive.embedded : c < i
             /\ copc' = "docker"
             /\ UNCHANGED <<lock, headAtSnapshot, coDep, coErr>>
          \/ /\ i <= NumDeps
             /\ \E r \in LockRecords(i) :
                  /\ r.rec.copy = (i \in archive.copied)
                  /\ lock' = [lock EXCEPT !.deps = Some(DictSet(done, i, r.rec))]
                  /\ IF copy_flag(r.rec)
                     THEN /\ cmdlog' = <<>> /\ src' = Absent
                          /\ search_paths' = <<>> /\ searchIdx' = 1
                          /\ UNCHANGED <<copc, coErr, headAtSnapshot>>
                     ELSE IF r.rec.filepath = Absent \/ r.rec.hash = None
                     THEN /\ CoRaise("KeyError")     \* dep["filepath"], dep["hash"]
                          /\ UNCHANGED <<headAtSnapshot, search_paths, searchIdx,
                                         src, cmdlog>>
                     ELSE /\ headAtSnapshot' = (i :> r.head) @@ headAtSnapshot
                          /\ cmdlog' = <<>>
                          /\ src' = Absent
                          /\ searchIdx' = 1
                          /\ \E toml \in {Absent, Some(TomlPath(i))} :
                                search_paths' = <<r.rec.filepath, toml>>
                          /\ IF i \in DOMAIN destDirs
                             THEN CoRaise("FileExistsError")
                             ELSE \/ copc' = "search" /\ UNCHANGED coErr
                                  \* the manifest entry has no filepath: Path(None)
                                  \/ CoRaise("TypeError")
    /\ UNCHANGED <<coInput, dockerfile, coDest, clVars, snVars, onPath>>

\* the dependency load_dep is working on, and its record
CurDep == Len(lock.deps[1])
CurRec == lock.deps[1][CurDep].v

\* the loop goes on with the next candidate after a match
after_match_continue(idx) == idx + 1

\* break: no candidate is examined after a match
after_match(idx) == Len(search_paths) + 1

\* for path in search_paths: skip an absent one, ask git, cp -r on a match
CoSearch ==
    /\ copc = "search"
    /\ UNCHANGED applied
    /\ \/ /\ searchIdx > Len(search_paths)
          /\ copc' = "clone"
          /\ UNCHANGED <<searchIdx, src, cmdlog, coErr, coDest>>
       \/ /\ searchIdx <= Len(search_paths)
          /\ LET path == search_paths[searchIdx]
             IN \/ /\ searchIdx' = searchIdx + 1       \* None, or not path.exists()
                   /\ cmdlog' = Append(cmdlog, Event("absent", searchIdx, FALSE))
                   /\ UNCHANGED <<copc, src, coErr, coDest>>
                \/ /\ path # Absent                  \* commit_exists: no
                   /\ searchIdx' = searchIdx + 1
                   /\ cmdlog' = Append(cmdlog, Event("commit_exists", searchIdx, FALSE))
                   /\ UNCHANGED <<copc, src, coErr, coDest>>
                \/ /\ path # Absent                  \* commit_exists: yes, cp -r
                   /\ src' = path
                   /\ \E rc \in ReturnCodes :
                        /\ cmdlog' = cmdlog \o <<Event("commit_exists", searchIdx, TRUE),
                                                 Event("cp", searchIdx, rc = 0)>>
                        /\ IF check_subprocess_error(rc)
                           THEN /\ CoRaise("ExternalToolError")
                                /\ UNCHANGED <<searchIdx, coDest>>
                           \* the copy has the candidate's HEAD and its
                           \* uncommitted changes
                           ELSE /\ \E b \in BaseNames, h \in Commits, d \in BOOLEAN :
                                      destDirs' =
                                        IF rc = 0
                                        THEN (b :> [origin |-> "restored", head |-> h,
                                                    dirty |-> d]) @@ destDirs
                                        ELSE destDirs
                                /\ searchIdx' = after_match(searchIdx)
                                /\ UNCHANGED <<copc, coErr, destExists, destFiles>>
    /\ UNCHANGED <<coInput, dockerfile, headAtSnapshot, search_paths, lock, clVars, snVars, onPath>>

\* the remote is cloned whenever a url is recorded
clone_whenever_url(found, url) == url # None

\* if src is None and url is not None
clone_needed(found, url) == found = Absent /\ url # None

\* a dependency nobody could supply is passed on as if it had been found
never_unresolved(found) == FALSE

\* if src is None: raise Exception
unresolved(found) == found = Absent

\* git clone url destination_path; commit_exists(destination_path);
\* if src is None: raise
CoClone ==
    /\ copc = "clone"
    /\ UNCHANGED applied
    /\ IF clone_needed(src, CurRec.url)
       THEN \E rc \in ReturnCodes :
            IF check_subprocess_error(rc)
            THEN /\ cmdlog' = Append(cmdlog, Event("clone", 0, rc = 0))
                 /\ CoRaise("ExternalToolError")
                 /\ UNCHANGED <<src, coDest>>
            ELSE
            \/ /\ cmdlog' = cmdlog \o <<Event("clone", 0, rc = 0),
                                        Event("commit_exists", 0, TRUE)>>
               /\ src' = Some(DestinationPath(CurDep))
               /\ \E h \in Commits :
                     destDirs' = (CurDep :> [origin |-> "restored", head |-> h,
                                             dirty |-> FALSE]) @@ destDirs
               /\ copc' = "status"
               /\ UNCHANGED <<coErr, destExists, destFiles>>
            \/ /\ cmdlog' = cmdlog \o <<Event("clone", 0, rc = 0),
                                        Event("commit_exists", 0, FALSE),
                                        Event("rmtree", 0, TRUE)>>
               /\ \E h \in Commits :
                     destDirs' = Without((CurDep :> [origin |-> "restored", head |-> h,
                                                     dirty |-> FALSE])
                                            @@ destDirs, CurDep)
               /\ IF unresolved(src) THEN CoRaise("CommitNotFound")
                                     ELSE copc' = "status" /\ UNCHANGED coErr
               /\ UNCHANGED <<src, destExists, destFiles>>
       ELSE /\ IF unresolved(src) THEN CoRaise("CommitNotFound")
                                  ELSE copc' = "status" /\ UNCHANGED coErr
            /\ UNCHANGED <<src, cmdlog, coDest>>
    /\ UNCHANGED <<coInput, dockerfile, headAtSnapshot, search_paths, searchIdx, lock, clVars, snVars, onPath>>

\* the test finds every tree clean
git_status_always_clean(tree) == FALSE

\* git status --porcelain --untracked-files=no prints something
git_status(tree) == tree.dirty

\* git status in destination_path; git reset --hard HEAD when it is dirty
CoStatus ==
    /\ copc = "status"
    /\ \/ /\ CurDep \notin DOMAIN destDirs       \* cwd does not exist
          /\ CoRaise("FileNotFoundError")
          /\ UNCHANGED <<cmdlog, applied, destDirs>>
       \/ /\ CurDep \in DOMAIN destDirs
          /\ IF ~git_status(destDirs[CurDep])
             THEN /\ cmdlog' = Append(cmdlog, Event("status", 0, TRUE))     \* clean
                  /\ copc' = "gitcheckout"
                  /\ UNCHANGED <<coErr, applied, destDirs>>
             ELSE \E rc \in ReturnCodes :                                   \* dirty
                  /\ cmdlog' = cmdlog \o <<Event("status", 0, FALSE),
                                           Event("reset", 0, rc = 0)>>
                  /\ applied' = applied \cup {CurDep}
                  /\ destDirs' = IF rc = 0
                                 THEN [destDirs EXCEPT ![CurDep].dirty = FALSE]
                                 ELSE destDirs
                  /\ IF check_subprocess_error(rc)
                     THEN CoRaise("ExternalToolError")
                     ELSE copc' = "gitcheckout" /\ UNCHANGED coErr
    /\ UNCHANGED <<coInput, dockerfile, headAtSnapshot, destExists, destFiles, search_paths, searchIdx,
                   src, lock, clVars, snVars, onPath>>

\* git checkout <commit_hash> in destination_path
git_checkout(tree, hash) == [tree EXCEPT !.head = hash]

CoGitCheckout ==
    /\ copc = "gitcheckout"
    /\ applied' = applied \cup {CurDep}
    /\ \E rc \in ReturnCodes :
          /\ cmdlog' = Append(cmdlog, Event("checkout", 0, rc = 0))
          /\ IF check_subprocess_error(rc)
             THEN /\ CoRaise("ExternalToolError")
                  /\ UNCHANGED destDirs
             ELSE /\ destDirs' = IF rc = 0
                                 THEN [destDirs EXCEPT ![CurDep] = git_checkout(@, CurRec.hash)]
                                 ELSE destDirs
                  /\ copc' = "deps"
                  /\ UNCHANGED coErr
    /\ UNCHANGED <<coInput, dockerfile, headAtSnapshot, destExists, destFiles, search_paths,
                   searchIdx, src, lock, clVars, snVars, onPath>>

\* the files under exports/ of an installation: those of the installation
\* the snapshot was made with, or others
Templates == {"templates", "other templates"}

\* docker_head, docker_tail, docker_compose: read from local_exports_path
exports(snapshot, local) == local

\* for dep_name in deps.keys(): the volume declarations
volume_declaration(snapshot) ==
    IF snapshot.deps = Absent THEN Absent
    ELSE Some([n \in 1..Len(snapshot.deps[1]) |-> snapshot.deps[1][n].k])

\* dockerfile and docker_compose as they are written
Rendered(templates, volumes) == [templates |-> templates, volumes |-> volumes]

\* create_dockerfiles: Dockerfile and docker-compose.yaml are written
CoDockerfiles ==
    /\ copc = "docker"
    /\ \/ CoRaise("OSError") /\ UNCHANGED <<coDest, dockerfile>>
       \/ /\ \E local \in Templates :
                dockerfile' = Some(Rendered(exports(lock, local), volume_declaration(lock)))
          /\ destFiles' = [f \in {"Dockerfile", "docker-compose.yaml"} |-> "generated"]
                            @@ destFiles
          /\ copc' = "spack"
          /\ UNCHANGED <<coErr, destExists, destDirs>>
    /\ UNCHANGED <<coInput, headAtSnapshot, coDep, lock, clVars, snVars, onPath>>

\* spack_config = config.get("spack"): spack.lock is written when present
CoSpack ==
    /\ copc = "spack"
    /\ \/ copc' = "done" /\ UNCHANGED <<coErr, coDest, lock>>
       \/ /\ lock' = [lock EXCEPT !.spack = "spack.lock content"]
          /\ \/ CoRaise("OSError") /\ UNCHANGED coDest
             \/ /\ destFiles' = ("spack.lock" :> "generated") @@ destFiles
                /\ copc' = "done"
                /\ UNCHANGED <<coErr, destExists, destDirs>>
    /\ UNCHANGED <<coInput, dockerfile, headAtSnapshot, coDep, clVars, snVars, onPath>>

\* the error is re-raised and the destination is left as it is
CoRollbackKeepsDest ==
    /\ copc = "rollback"
    /\ copc' = "failed"
    /\ UNCHANGED <<coErr, coInput, dockerfile, headAtSnapshot, coDest, coDep, lock, clVars, snVars, onPath>>

\* except Exception as err: shutil.rmtree(checkout_dir); raise err
CoRollback ==
    /\ copc = "rollback"
    /\ copc' = "failed"
    /\ IF destExists
       THEN /\ destExists' = FALSE /\ destFiles' = NoFiles /\ destDirs' = NoFiles
            /\ dockerfile' = Absent
            /\ UNCHANGED coErr
       ELSE /\ coErr' = "FileNotFoundError in rmtree"
            /\ UNCHANGED <<coDest, dockerfile>>
    /\ UNCHANGED <<coInput, headAtSnapshot, coDep, lock, clVars, snVars, onPath>>

CoNext ==
    \/ CoCheckTools \/ CoFindZip \/ CoValidate \/ CoUnpack \/ CoReadLockfile
    \/ CoNextDep \/ CoSearch \/ CoClone \/ CoStatus \/ CoGitCheckout
    \/ CoDockerfiles \/ CoSpack \/ CoRollback

(***************************************************************************)
(* Specifications                                                          *)
(***************************************************************************)
InitClosure ==
    /\ clpc = "seed" /\ clErr = None /\ seedIdx = 1 /\ packages = <<>>
    /\ seeds \in SeedLists
    /\ predep_tree = <<>> /\ name_filename_map = <<>> /\ failed_packages = <<>>
    /\ deps_txt = <<>> /\ depsOf = <<>> /\ calls = NoCalls
    /\ lock = EmptyLock
    /\ onPath \in {S \in SUBSET Tools : {"git", "dpkg-repack", "cp"} \subseteq S}
    /\ SnIdle
    /\ CoIdle

SpecClosure == InitClosure /\ [][ClNext]_vars

InitSnapshot ==
    /\ ClIdle
    /\ lock = EmptyLock
    /\ snpc = "tools" /\ archive_dir = "absent" /\ everStaged = FALSE /\ snErr = None
    /\ zip_file \in {"none", "old"}
    /\ zip_before = zip_file
    /\ copyFlag = Absent
    /\ warned = Absent
    /\ onPath \in SUBSET Tools
    /\ CoIdle

SpecSnapshot == InitSnapshot /\ [][SnNext \/ ClNext]_vars

\* what the destination may hold before the run
PriorDests ==
    {[exists |-> FALSE, files |-> NoFiles, dirs |-> NoFiles]} \cup
    {[exists |-> TRUE,
      files |-> [x \in {"notes.txt", "ugle.lock"} |-> "prior"],
      dirs |-> [x \in {1} |-> [origin |-> "prior", head |-> "c1", dirty |-> FALSE]]]}

InitCheckout ==
    /\ ClIdle
    /\ SnIdle
    /\ lock = EmptyLock
    /\ copc = "tools" /\ coErr = None
    /\ onPath \in SUBSET Tools
    /\ force \in BOOLEAN
    /\ prior \in PriorDests
    /\ destExists = prior.exists /\ destFiles = prior.files /\ destDirs = prior.dirs
    /\ archive \in {a \in [lockfile : BOOLEAN, copied : SUBSET DepNames,
                            embedded : SUBSET DepNames] :
                        /\ a.copied \cap a.embedded = {}
                        /\ Cardinality(a.embedded) <= MaxEmbedded}
    /\ headAtSnapshot = NoFiles
    /\ dockerfile = Absent
    /\ search_paths = <<>> /\ searchIdx = 1 /\ src = Absent /\ cmdlog = <<>>
    /\ applied = {}

SpecCheckout == InitCheckout /\ [][CoNext]_vars

(***************************************************************************)
(* Properties of the snapshot transaction (SpecSnapshot)                   *)
(***************************************************************************)
SnEnded == snpc \in {"done", "failed"}

C4_RepackFailureIsNotFatal ==
    snpc = "failed" => snErr # "RepackFailed"

(***************************************************************************)
(* Properties of the package closure builder (SpecClosure)                 *)
(***************************************************************************)
ClEnded == clpc \in {"done", "raised"}
FailedNames == {failed_packages[i][1] : i \in 1..Len(failed_packages)}

\* C3: when the repackaging of one package produced no artifact, the closure
\* operation is not aborted by it, and at its end every other seed has an
\* artifact recorded.
C3_FailureIsolation ==
    (ClEnded /\ failed_packages # <<>>) =>
        /\ clErr # "RepackFailed"
        /\ \A p \in Range(seeds) \ FailedNames : p \in DOMAIN name_filename_map

Before(s, b, a) ==
    \A j \in 1..Len(s) : s[j] = a => \E i \in 1..(j - 1) : s[i] = b

\* C5: in the install order that was written, every artifact comes after
\* each artifact the translated graph says it depends on.
C5_TopologicalValidity ==
    clpc = "done" =>
        \A n \in 1..Len(predep_tree) :
            /\ predep_tree[n].k \in Range(deps_txt)
            /\ \A b \in Range(predep_tree[n].v) : Before(deps_txt, b, predep_tree[n].k)

\* an order over three artifacts, one of them with two dependencies
C5_Witness ==
    /\ clpc = "done"
    /\ Len(deps_txt) = 3
    /\ \E n \in 1..Len(predep_tree) : Cardinality(Range(predep_tree[n].v)) = 2


(***************************************************************************)
(* Properties of the checkout transaction (SpecCheckout)                   *)
(***************************************************************************)
\* the errors checkout() raises before its try block
BeforeTry == {"ToolMissing", "ZipFileNotFound", "DestinationExists"}
HasDeps == lock.deps # Absent
NDeps == IF HasDeps THEN Len(lock.deps[1]) ELSE 0
LogIdx == 1..Len(cmdlog)
OnCandidate(i) == cmdlog[i].cand > 0
Matched(i) == cmdlog[i].op = "commit_exists" /\ cmdlog[i].ok

\* C1: when a step after the validation of the destination raised, the
\* destination directory does not exist once the error has reached the caller
C1_RollbackLeavesNoDestination ==
    (copc = "failed" /\ coErr \notin BeforeTry) => ~destExists

\* C1: the third of three pinned dependencies could not be resolved after two
\* were restored, and the destination is gone
C1_Witness ==
    /\ copc = "failed" /\ coErr = "CommitNotFound"
    /\ NDeps = 3
    /\ \A k \in 1..NDeps : ~lock.deps[1][k].v.copy
    /\ ~destExists

\* C6: with an existing destination and no force, checkout never gets past
\* the validation, the destination stays as it was, and neither the archive
\* is unpacked nor a dependency restored
C6_ConflictWithoutForce ==
    (prior.exists /\ ~force) =>
        /\ copc \in {"tools", "zip", "validate", "failed"}
        /\ Dest = prior
        /\ lock = EmptyLock
        /\ cmdlog = <<>>

\* C6: checkout failed on the existing destination
C6_Witness ==
    /\ copc = "failed" /\ coErr = "DestinationExists"
    /\ prior.exists /\ ~force
    /\ DOMAIN destFiles # {}

\* C7: after a successful checkout nothing of the destination's prior
\* contents is left
C7_ForceReplacesDestination ==
    copc = "done" =>
        /\ \A f \in DOMAIN destFiles : destFiles[f] # "prior"
        /\ \A d \in DOMAIN destDirs : destDirs[d].origin # "prior"

\* C7: a forced checkout over an existing destination succeeded
C7_Witness ==
    /\ copc = "done" /\ force /\ prior.exists
    /\ DOMAIN prior.files # {}
    /\ "ugle.lock" \in DOMAIN destFiles

\* C8: the recorded hash of a pinned dependency is the HEAD its working tree
\* had at snapshot time, and after a successful checkout the tree at
\* <destination>/<dependency> has that commit checked out
C8_RoundTrip ==
    copc = "done" =>
        \A k \in 1..NDeps :
            LET dep == lock.deps[1][k]
            IN ~dep.v.copy =>
                  /\ dep.v.hash = headAtSnapshot[dep.k]
                  /\ dep.k \in DOMAIN destDirs
                  /\ destDirs[dep.k].head = headAtSnapshot[dep.k]

\* C8: two pinned dependencies were restored, the last one from a clone
C8_Witness ==
    /\ copc = "done" /\ NDeps >= 2
    /\ \A k \in 1..NDeps : ~lock.deps[1][k].v.copy
    /\ \E i \in LogIdx : cmdlog[i] = Event("clone", 0, TRUE)
    /\ \E k \in 1..NDeps : headAtSnapshot[k] = "c2"

\* C9: the candidates are the recorded path and then the manifest path; an
\* absent one is skipped without a query; the first that holds the commit is
\* the source and the only one copied; nothing is examined after a match
C9_CommitLocatorOrdering ==
    /\ search_paths # <<>> =>
          /\ search_paths[1] = CurRec.filepath
          /\ search_paths[2] \in {Absent, Some(TomlPath(CurDep))}
    /\ \A i, j \in LogIdx :
          (i < j /\ OnCandidate(i) /\ OnCandidate(j)) => cmdlog[i].cand <= cmdlog[j].cand
    /\ \A i, j \in LogIdx :
          (cmdlog[i].op = "absent" /\ i # j) => cmdlog[j].cand # cmdlog[i].cand
    /\ \A i \in LogIdx :
          cmdlog[i].op = "cp" =>
             /\ i > 1
             /\ cmdlog[i - 1] = Event("commit_exists", cmdlog[i].cand, TRUE)
    /\ \A i \in LogIdx :
          (Matched(i) /\ OnCandidate(i)) =>
             /\ src = search_paths[cmdlog[i].cand]
             /\ i < Len(cmdlog) /\ cmdlog[i + 1].op = "cp"
             /\ \A j \in LogIdx : OnCandidate(j) => cmdlog[j].cand <= cmdlog[i].cand
    /\ Cardinality({i \in LogIdx : cmdlog[i].op = "cp"}) <= 1

\* C9: the recorded path held the commit, was copied, and the dependency was
\* restored although a manifest path was given too
C9_Witness ==
    /\ copc = "done" /\ Len(cmdlog) >= 2
    /\ cmdlog[1] = Event("commit_exists", 1, TRUE)
    /\ cmdlog[2] = Event("cp", 1, TRUE)
    /\ search_paths[2] # Absent

\* C10: a clone is made only when no candidate held the commit and a url is
\* recorded; when the clone holds the commit it is the source and nothing was
\* copied for the dependency
C10_CloneIsLastResort ==
    /\ \A i \in LogIdx :
          cmdlog[i].op = "clone" =>
             /\ CurRec.url # None
             /\ \A j \in LogIdx : ~(Matched(j) /\ OnCandidate(j))
             /\ \A j \in LogIdx : cmdlog[j].op # "cp"
    /\ \A i \in LogIdx :
          (Matched(i) /\ ~OnCandidate(i)) =>
             /\ src = Some(DestinationPath(CurDep))
             /\ \A j \in LogIdx : cmdlog[j].op # "cp"

\* C10: both candidates were tried in vain and the clone restored the
\* dependency
C10_Witness ==
    /\ copc = "done" /\ Len(cmdlog) >= 4
    /\ cmdlog[1] = Event("commit_exists", 1, FALSE)
    /\ cmdlog[2] = Event("commit_exists", 2, FALSE)
    /\ cmdlog[3] = Event("clone", 0, TRUE)
    /\ cmdlog[4] = Event("commit_exists", 0, TRUE)


LogHas(e) == \E i \in LogIdx : cmdlog[i] = e
LogHasOp(op) == \E i \in LogIdx : cmdlog[i].op = op
CloneLacksCommit == LogHas(Event("commit_exists", 0, FALSE))

\* C11: when the clone does not hold the pinned commit, the cloned tree is
\* removed from the destination path and load_dep fails for the dependency
\* without a reset or a checkout
C11_CloneWithoutCommitDiscarded ==
    CloneLacksCommit =>
        /\ CurDep \notin DOMAIN destDirs
        /\ copc \in {"rollback", "failed"}
        /\ coErr = "CommitNotFound"
        /\ ~LogHasOp("status") /\ ~LogHasOp("reset") /\ ~LogHasOp("checkout")

\* C11: the clone for the second dependency lacked the commit and is gone,
\* while the tree of the first is still in the destination
C11_Witness ==
    /\ copc = "rollback" /\ CloneLacksCommit
    /\ CurDep = 2
    /\ 1 \in DOMAIN destDirs /\ 2 \notin DOMAIN destDirs

\* load_dep has run out of sources: no candidate held the commit, and no url
\* is recorded or the clone lacked the commit
Exhausted ==
    /\ search_paths # <<>>
    /\ searchIdx > Len(search_paths)
    /\ src = Absent
    /\ copc # "search"
    /\ CurRec.url = None \/ CloneLacksCommit

\* C12: a dependency that no source can supply makes load_dep raise: neither
\* reset nor checkout is run for it, the error ends the whole checkout, and
\* from then on no further dependency is read or worked on
C12_UnresolvedDependencyIsFatal ==
    /\ [](Exhausted =>
            /\ copc \in {"clone", "rollback", "failed"}
            /\ copc # "clone" => coErr = "CommitNotFound"
            /\ ~LogHasOp("status") /\ ~LogHasOp("reset") /\ ~LogHasOp("checkout"))
    /\ [][coErr = "CommitNotFound" =>
            /\ copc' = "failed"
            /\ coErr' = coErr
            /\ lock' = lock
            /\ cmdlog' = cmdlog]_vars

\* C12: the second of the dependencies had no url and no candidate with the
\* commit, and the checkout failed
C12_Witness ==
    /\ copc = "failed" /\ coErr = "CommitNotFound"
    /\ NDeps = 2 /\ ~lock.deps[1][1].v.copy
    /\ CurRec.url = None
    /\ cmdlog = <<Event("absent", 1, FALSE), Event("commit_exists", 2, FALSE)>>


\* C13: a dependency whose destination path exists already and holds the
\* pinned commit is not refused: load_dep does not fail on the existing path
C13_IdempotentLocate ==
    (copc = "rollback" /\ coErr = "FileExistsError") =>
        destDirs[CurDep].head # CurRec.hash


\* C14: no reset and no checkout is run on any dependency while a dependency
\* is still being located, so a dependency that cannot be found fails before
\* any command was applied
C14_DeferredApplication ==
    (copc \in {"search", "clone"} \/ coErr = "CommitNotFound") => applied = {}


\* a set of nodes each of which has a predecessor in the set
Cyclic(g) ==
    \E S \in SUBSET DictKeys(g) :
        /\ S # {}
        /\ \A n \in S : Range(DictVal(g, n)) \cap S # {}

\* C15: with a cycle in the graph the closure builder ends in an error: no
\* install order is written and no apt entry reaches the lockfile
C15_CycleIsFatal ==
    (Cyclic(predep_tree) /\ ClEnded) =>
        /\ clpc = "raised"
        /\ deps_txt = <<>>
        /\ lock.apt = Absent

\* C15: two packages that pre-depend on each other were built, and the sorter
\* raised
C15_Witness ==
    /\ clpc = "raised" /\ clErr = "CycleError"
    /\ Cyclic(predep_tree)
    /\ Len(predep_tree) >= 2
    /\ \A n \in 1..Len(predep_tree) : predep_tree[n].k \notin Range(predep_tree[n].v)


(***************************************************************************)
(* Properties of the dependency records of a snapshot (SpecSnapshot)       *)
(***************************************************************************)
SnRecords == IF lock.deps = Absent THEN <<>> ELSE lock.deps[1]
IsCopyRecord(r) == r.copy /\ r.filepath = Absent /\ r.hash = None /\ r.url = None
IsPinnedRecord(r) == ~r.copy /\ r.filepath # Absent /\ r.hash \in Commits

\* C16: the record of a manifest entry that carries no copy flag is a pinned
\* record; a copy record is written only for an entry marked copy = true
C16_PinnedByDefault ==
    (snpc = "dep" /\ SnRecords # <<>>) =>
        (SnRecords[Len(SnRecords)].v.copy <=> copyFlag = Some(TRUE))

\* C17: at every point of a snapshot run each dependency record of the
\* lockfile is a copy record without filepath, hash and url, or a pinned
\* record with filepath and hash
C17_RecordInvariant ==
    \A k \in 1..Len(SnRecords) :
        IsCopyRecord(SnRecords[k].v) \/ IsPinnedRecord(SnRecords[k].v)

\* C17: a copy record and a pinned record without url are in the lockfile
C17_Witness ==
    /\ snpc = "done"
    /\ Len(SnRecords) = 2
    /\ SnRecords[1].v.copy
    /\ ~SnRecords[2].v.copy /\ SnRecords[2].v.url = None

\* C18: after the dirty warning the dependency gets its pinned record with
\* the HEAD of that tree and the loop goes on to the next dependency; the only
\* thing that can still stop the snapshot there is a failing git command
C18_DirtyTreeNeverAborts ==
    warned # Absent =>
        \/ /\ snpc = "dep" /\ snErr = None
           /\ SnRecords # <<>>
           /\ IsPinnedRecord(SnRecords[Len(SnRecords)].v)
           /\ SnRecords[Len(SnRecords)].v.hash = warned[1]
        \/ /\ snpc \in {"finally", "failed"}
           /\ snErr = "ExternalToolError"

\* C18: the second dependency had a dirty tree and was recorded after the
\* first; the loop is ready for the next one
C18_Witness ==
    /\ snpc = "dep" /\ snErr = None
    /\ warned = Some("c2")
    /\ Len(SnRecords) = 2
    /\ SnRecords[2].v.hash = "c2"

\* C19: when a snapshot fails, an archive that existed before the run is
\* still there with its previous content
C19_FailureKeepsOldArchive ==
    (snpc = "failed" /\ zip_before = "old") => zip_file = "old"

\* C20: with one of the four tools missing, snapshot stops at the tool check:
\* no staging directory, no lockfile content, no package is repacked
C20_ToolsCheckedAtStartup ==
    onPath # Tools =>
        /\ snpc \in {"tools", "failed"}
        /\ ~everStaged
        /\ lock = EmptyLock
        /\ clpc = "idle"

-----------------------------------------------------------------------------
\* Properties of configuration errors of a snapshot

\* the manifest lacks `name` (snapshot.py 62-65), or its spack section lacks
\* `lockfile` (spack_deps, 184-186): the dependency loop has not started yet
ConfigError ==
    \/ snErr = "ValueError" /\ lock.name = None
    \/ snErr = "KeyError" /\ lock.deps = Absent

\* C21: when the manifest lacks `name`, or has a spack section without
\* `lockfile`, the snapshot fails and the staging directory was never created
\* during that run
C21_ConfigErrorCreatesNoState ==
    ConfigError => (snpc \in {"finally", "failed"} /\ ~everStaged)

-----------------------------------------------------------------------------
\* Properties of the closure builder as a function of its inputs

\* the PreDepends graph computed from the seed list and the recorded answers
\* alone: the last package of the work list is taken first, and a package is
\* queried once
RECURSIVE WalkFrom(_, _, _)
WalkFrom(stack, tree, answers) ==
    IF stack = <<>> THEN tree
    ELSE LET p == stack[Len(stack)]
             rest == SubSeq(stack, 1, Len(stack) - 1)
         IN IF \E i \in 1..Len(tree) : tree[i].k = p
            THEN WalkFrom(rest, tree, answers)
            ELSE IF p \notin DOMAIN answers THEN tree
            ELSE WalkFrom(rest \o answers[p].deps,
                          Append(tree, [k |-> p, v |-> answers[p].pre]), answers)

RECURSIVE WalkSeeds(_, _, _)
WalkSeeds(ss, tree, answers) ==
    IF ss = <<>> THEN tree
    ELSE WalkSeeds(Tail(ss), WalkFrom(<<Head(ss)>>, tree, answers), answers)

\* the same graph over artifact file names
Translated(tree, files) ==
    [i \in 1..Len(tree) |->
        [k |-> files[tree[i].k],
         v |-> [j \in 1..Len(tree[i].v) |-> files[tree[i].v[j]]]]]

ExpectedGraph == Translated(WalkSeeds(seeds, <<>>, depsOf), name_filename_map)

\* C22: the install order and the translated dependency graph of a completed
\* closure are determined by the seed list and the package manager's answers
\* (dependency sets, artifact file names): two runs with the same inputs give
\* the same outputs
C22_DeterministicInstallOrder ==
    clpc = "done" =>
        /\ predep_tree = ExpectedGraph
        /\ deps_txt = ReadyOrder(ExpectedGraph)

C22_Witness ==
    /\ clpc = "done"
    /\ Len(seeds) = 2 /\ seeds[1] # seeds[2]
    /\ Len(deps_txt) = 3
    /\ \E i \in 1..Len(predep_tree) : Len(predep_tree[i].v) = 2

-----------------------------------------------------------------------------
\* Properties of failing external tools during a checkout

ToolOps == {"cp", "clone", "reset", "checkout"}

\* the copy, clone, reset or checkout process of the current dependency
\* exited non-zero
ToolFailed == \E i \in LogIdx : cmdlog[i].op \in ToolOps /\ ~cmdlog[i].ok

\* the environment files create_dockerfiles generates
EnvFilesGenerated ==
    \E f \in DOMAIN destFiles : destFiles[f] = "generated"

\* C23: when the copy, clone, reset or checkout process of a dependency exits
\* non-zero the checkout aborts at that point: that command is the last one
\* run, no later dependency is started, no environment file is generated, and
\* the error is propagated; the run never goes on to completion
C23_ExternalToolFailureIsFatal ==
    /\ [](\A i \in LogIdx :
            (cmdlog[i].op \in ToolOps /\ ~cmdlog[i].ok) =>
                /\ i = Len(cmdlog)
                /\ copc \in {"rollback", "failed"}
                /\ coErr = "ExternalToolError"
                /\ ~EnvFilesGenerated)
    /\ [][ToolFailed => (lock' = lock /\ cmdlog' = cmdlog /\ copc' = "failed")]_vars

C23_Witness ==
    /\ copc = "failed"
    /\ coErr = "ExternalToolError"
    /\ cmdlog # <<>>
    /\ cmdlog[Len(cmdlog)].op = "reset" /\ ~cmdlog[Len(cmdlog)].ok
    /\ CurDep = 1 /\ archive.copied = {2}
    /\ ~destExists

-----------------------------------------------------------------------------
\* Properties of the closure with respect to the dependency queries

\* the packages the dependency query of p returned
QueryDeps(p) == Range(depsOf[p].deps)

\* C24: for every visited package P and every package D returned by P's
\* dependency query (Depends, PreDepends or Recommends), D's artifact comes
\* before P's artifact in the install order
C24_OrderRespectsAllDependencies ==
    clpc = "done" =>
        \A p \in DOMAIN depsOf : \A d \in QueryDeps(p) \ {p} :
            Before(deps_txt, DebFile(d), DebFile(p))

\* the packages reachable from S through the dependency queries
RECURSIVE Reach(_)
Reach(S) ==
    LET next == S \cup UNION {QueryDeps(p) : p \in S \cap DOMAIN depsOf}
    IN IF next = S THEN S ELSE Reach(next)

\* C25: when the closure completes (no repack failed), the packages with an
\* entry in the name-to-artifact map are exactly the packages reachable from
\* the seed list through the dependency queries: every seed and every
\* transitive dependency, and nothing else
C25_ClosureCompleteness ==
    clpc = "done" =>
        /\ DOMAIN name_filename_map = Reach(Range(seeds))
        /\ DOMAIN depsOf = Reach(Range(seeds))

\* a seed whose only link to a third package is a Recommends line two
\* queries away
C25_Witness ==
    /\ clpc = "done"
    /\ seeds = <<1>>
    /\ DOMAIN name_filename_map = {1, 2, 3}
    /\ QueryDeps(1) = {2}
    /\ 3 \in QueryDeps(2)
    /\ \A i \in 1..Len(predep_tree) : predep_tree[i].v = <<>>

-----------------------------------------------------------------------------
\* Properties of the restoration of one dependency

\* load_dep is at work on the current dependency
InLoadDep == copc \in {"search", "clone", "status", "gitcheckout"}

\* a local candidate held the commit and the copy succeeded
CopiedFromCandidate == \E i \in LogIdx : cmdlog[i].op = "cp" /\ cmdlog[i].ok

\* C26: when a local candidate contains the commit, after the copy the
\* working tree exists at destination/<dependency-name>, whatever the
\* candidate's own directory name is
C26_RestoredUnderDependencyName ==
    (InLoadDep /\ CopiedFromCandidate) => CurDep \in DOMAIN destDirs

\* the working tree of the current dependency was put in place
RestoredBefore(i) ==
    \E j \in 1..(i - 1) :
        \/ cmdlog[j].op = "cp" /\ cmdlog[j].ok
        \/ /\ cmdlog[j].op = "clone" /\ cmdlog[j].ok
           /\ j + 1 < i /\ cmdlog[j + 1].op = "commit_exists" /\ cmdlog[j + 1].ok

\* C27: the dirtiness test is made on the destination's working tree after it
\* has been restored; a tree with uncommitted changes to tracked files is
\* reset to HEAD strictly before the checkout of the pinned commit, a clean
\* one is not reset, and the checkout is the last command of the dependency
C27_ResetBeforeCheckout ==
    /\ \A i \in LogIdx :
          /\ cmdlog[i].op = "status" => RestoredBefore(i)
          /\ cmdlog[i].op = "reset" =>
                i > 1 /\ cmdlog[i - 1].op = "status" /\ ~cmdlog[i - 1].ok
          /\ (cmdlog[i].op = "status" /\ cmdlog[i].ok) =>
                \A j \in LogIdx : cmdlog[j].op # "reset"
          /\ (cmdlog[i].op = "status" /\ ~cmdlog[i].ok) =>
                i < Len(cmdlog) /\ cmdlog[i + 1].op = "reset"
          /\ cmdlog[i].op = "checkout" =>
                /\ i = Len(cmdlog)
                /\ \E j \in 1..(i - 1) : cmdlog[j].op = "status"
                /\ \A j \in LogIdx : cmdlog[j].op = "reset" => j < i /\ cmdlog[j].ok
    \* the tree the checkout is run in has no uncommitted change left
    /\ copc = "gitcheckout" =>
          CurDep \in DOMAIN destDirs /\ ~destDirs[CurDep].dirty

\* a dirty copy was reset and then checked out
C27_Witness ==
    /\ copc = "deps"
    /\ Len(cmdlog) >= 3
    /\ cmdlog[Len(cmdlog)] = Event("checkout", 0, TRUE)
    /\ cmdlog[Len(cmdlog) - 1] = Event("reset", 0, TRUE)
    /\ cmdlog[Len(cmdlog) - 2] = Event("status", 0, FALSE)
    /\ \E i \in LogIdx : cmdlog[i].op = "cp" /\ cmdlog[i].ok

-----------------------------------------------------------------------------
\* Properties of copy-mode records during a checkout

\* this step of the dependency loop takes a copy-mode record
TakesCopyRecord ==
    /\ copc = "deps"
    /\ Len(lock'.deps[1]) = Len(lock.deps[1]) + 1
    /\ lock'.deps[1][Len(lock'.deps[1])].v.copy

\* C28: for a record with copy = true the checkout makes no locator query and
\* runs no copy, clone, reset or checkout command, leaves the tree that
\* unpacking materialized unchanged, and does not fail for the filepath or
\* hash the record lacks
C28_CopyRecordsAreInert ==
    /\ [][TakesCopyRecord =>
            /\ cmdlog' = <<>>
            /\ applied' = applied
            /\ destExists' = destExists /\ destFiles' = destFiles /\ destDirs' = destDirs
            /\ copc' = "deps" /\ coErr' = coErr]_vars
    /\ [](\A n \in 1..NDeps :
            lock.deps[1][n].v.copy => lock.deps[1][n].k \notin applied)

\* the loop went past a copy-mode record and restored a pinned one, and the
\* unpacked tree is as it was
C28_Witness ==
    /\ copc = "deps"
    /\ NDeps = 2
    /\ lock.deps[1][1].v.copy /\ ~lock.deps[1][2].v.copy
    /\ applied = {2}
    /\ destDirs[1] = [origin |-> "unpacked", head |-> None, dirty |-> FALSE]

-----------------------------------------------------------------------------
\* Properties of the phases of a checkout

\* the phase a position of checkout() belongs to
Phase(pc) ==
    CASE pc \in {"tools", "zip", "validate"} -> 1                   \* validate
      [] pc \in {"unpack", "lockfile"} -> 2                         \* unpack
      [] pc \in {"deps", "search", "clone", "status", "gitcheckout"} -> 3
      [] pc = "docker" -> 4                                         \* environment files
      [] pc = "spack" -> 5                                          \* spack.lock
      [] pc = "done" -> 6
      [] OTHER -> 0

\* the record of dependency n was restored at its pinned commit
RestoredAtPin(n) ==
    LET d == lock.deps[1][n]
    IN /\ d.k \in DOMAIN destDirs
       /\ destDirs[d.k].origin = "restored"
       /\ destDirs[d.k].head = d.v.hash
       /\ d.k \in applied

AllPinnedRestored ==
    \A n \in 1..NDeps : ~lock.deps[1][n].v.copy => RestoredAtPin(n)

\* C29: the phases of a checkout run occur in the order validate, unpack,
\* restore dependencies, generate environment files, done; the environment
\* files exist only after every pinned dependency was restored, spack.lock is
\* written only after them, and a failure in a phase after validation ends
\* in the terminal state with the destination removed, never in done
C29_PhaseOrdering ==
    /\ [][copc' \notin {"rollback", "failed"} =>
            /\ Phase(copc) > 0
            /\ Phase(copc') >= Phase(copc)
            /\ Phase(copc') <= Phase(copc) + 1 \/ (Phase(copc) = 2 /\ Phase(copc') = 4)]_vars
    /\ [](Phase(copc) >= 4 => AllPinnedRestored)
    /\ [](EnvFilesGenerated => (AllPinnedRestored /\ copc \in {"spack", "done", "rollback"}))
    /\ []("spack.lock" \in DOMAIN destFiles /\ destFiles["spack.lock"] = "generated"
            => ("Dockerfile" \in DOMAIN destFiles /\ copc \in {"done"}))
    /\ [](copc = "done" => (coErr = None /\ destExists /\ EnvFilesGenerated))
    /\ [][copc = "rollback" => (copc' = "failed" /\ ~destExists' /\ coErr' # None)]_vars
    /\ [][copc # "failed"]_vars

\* a run that restored a pinned dependency and then failed while writing
\* spack.lock: the destination is gone
C29_Witness ==
    /\ copc = "failed"
    /\ ~destExists
    /\ coErr = "OSError"
    /\ lock.spack # None
    /\ applied # {}

-----------------------------------------------------------------------------
\* Properties of a failing dependency query

\* C30: if the dependency query of a package exits non-zero the closure
\* operation aborts; it does not continue with an empty or partial dependency
\* set for that package
C30_QueryFailureIsFatal ==
    \A p \in DOMAIN depsOf : depsOf[p].rc # 0 => clpc = "raised"

-----------------------------------------------------------------------------
\* Properties of the environment files of a checkout

\* C31: the environment files checkout writes are a function of the
\* lockfile's dependency names and of the template blobs stored in the
\* lockfile at snapshot time, whatever the local template files are
C31_EnvFilesDependOnlyOnLockfile ==
    dockerfile # Absent =>
        dockerfile[1] = Rendered(lock.docker, volume_declaration(lock))

-----------------------------------------------------------------------------
\* Properties of the work list of the closure builder

\* the while loop of repack_packages_recursive found its list empty
EmptyFrontier == clpc = "loop" /\ packages = <<>>

\* packages the loop has not handled yet
Unhandled == Packages \ DictKeys(predep_tree)

\* C32: whatever the dependency queries answer (cycles, packages reached
\* along several paths), the work-list loop reaches an empty work list after
\* finitely many steps: every iteration that stays in the loop either handles
\* a package that was not handled before, or leaves the handled packages as
\* they are and shortens the work list; the packages are finitely many and
\* the list is finite, so the iterations are finitely many
C32_WorklistTerminates ==
    [][(clpc = "loop" /\ clpc' = "loop") =>
          \/ Unhandled' \subseteq Unhandled /\ Unhandled' # Unhandled
          \/ Unhandled' = Unhandled /\ Len(packages') < Len(packages)]_vars

\* the loop ended on a relation with a cycle and a package named twice
C32_Witness ==
    /\ EmptyFrontier
    /\ DOMAIN depsOf = {1, 2}
    /\ depsOf[1].deps = <<2, 2>>
    /\ depsOf[2].deps = <<1>>

\* C33: during one run of the closure builder the repackaging tool and the
\* dependency query are each invoked at most once for a package, also when
\* the package is listed twice in the seed list, is a dependency of several
\* packages, or has an empty dependency set
C33_RepackedAtMostOnce ==
    \A q \in Packages : calls["dpkg-repack"][q] <= 1 /\ calls["apt-cache"][q] <= 1

\* a seed listed twice, and a package without dependencies that two packages
\* depend on
C33_Witness ==
    /\ clpc = "done"
    /\ seeds = <<1, 1>>
    /\ DOMAIN depsOf = {1, 2, 3}
    /\ depsOf[1].deps = <<2, 3>>
    /\ depsOf[2].deps = <<3>>
    /\ depsOf[3].deps = <<>>
    /\ \A q \in {1, 2, 3} : calls["dpkg-repack"][q] = 1 /\ calls["apt-cache"][q] = 1

\* the artifacts of the packages that were repacked
Artifacts == {name_filename_map[q] : q \in DOMAIN name_filename_map}

\* C34: when the closure builder completes, the install order holds the
\* artifact file name of every visited package exactly once and nothing else
C34_OrderIsPermutation ==
    clpc = "done" =>
        /\ Range(deps_txt) = Artifacts
        /\ Len(deps_txt) = Cardinality(Artifacts)
        /\ Cardinality(Artifacts) = Cardinality(DOMAIN depsOf)

\* three packages, one of them named by the two others
C34_Witness ==
    /\ clpc = "done"
    /\ Len(deps_txt) = 3
    /\ DOMAIN depsOf = {1, 2, 3}
    /\ depsOf[1].pre = <<3>>
    /\ depsOf[2].pre = <<3>>

-----------------------------------------------------------------------------
\* Properties of the error a failed checkout propagates

\* C35: when a step inside the checkout transaction fails, the error that
\* reaches the caller is that step's error, not one raised by the rollback;
\* also when unpacking fails before the destination directory exists
C35_OriginalFailurePropagates ==
    [][copc = "rollback" => coErr' = coErr]_vars

-----------------------------------------------------------------------------
\* Properties of the archive lookup of a checkout

\* C36: if the archive path does not exist or is not a file, checkout fails
\* and a destination that existed is left untouched, even when force is set;
\* the destination is not changed before the archive was found
C36_ArchiveValidationFirst ==
    /\ copc \in {"tools", "zip"} => Dest = prior
    /\ coErr = "ZipFileNotFound" => (copc = "failed" /\ Dest = prior)

\* a forced checkout onto an existing destination did not find its archive
C36_Witness ==
    /\ copc = "failed" /\ coErr = "ZipFileNotFound"
    /\ force /\ prior.exists
    /\ destExists /\ DOMAIN destFiles # {} /\ DOMAIN destDirs # {}

-----------------------------------------------------------------------------
\* Properties of the name-to-artifact map of the closure builder

\* the packages named in the edge lists of a graph
EdgePackages(tree) == UNION {Range(tree[i].v) : i \in 1..Len(tree)}

\* C37: when the frontier loop has finished without raising, every key of the
\* package-name graph and every package named in its edge lists has an entry
\* in the name-to-artifact map, so the translation never raises its
\* missing-package error
C37_TranslationNeverFails ==
    /\ clpc = "reformat" =>
          /\ DictKeys(predep_tree) \subseteq DOMAIN name_filename_map
          /\ EdgePackages(predep_tree) \subseteq DOMAIN name_filename_map
          /\ reformat_predep_tree(predep_tree, name_filename_map) # Missing
    /\ clErr # "MissingPackage"

\* a traversal ended with a graph of several keys and a non-empty edge list
C37_Witness ==
    /\ clpc = "reformat"
    /\ Len(predep_tree) >= 2
    /\ EdgePackages(predep_tree) # {}

-----------------------------------------------------------------------------
\* Properties of the failure list of the closure builder

\* C38: at every point of a closure run, a package of the failure list has no
\* entry in the name-to-artifact map and no key in the dependency graph, and
\* a package with an artifact entry is not in the failure list
C38_FailuresDisjointFromArtifacts ==
    clpc # "idle" =>
        /\ \A q \in FailedNames :
              q \notin DOMAIN name_filename_map /\ q \notin DictKeys(predep_tree)
        /\ \A q \in DOMAIN name_filename_map : q \notin FailedNames

\* a run that stored artifacts recorded a failure for another package
C38_Witness ==
    /\ clpc = "raised"
    /\ FailedNames # {}
    /\ DOMAIN name_filename_map # {}
    /\ predep_tree # <<>>

====
